---- MODULE Spec2Model ----
(***************************************************************************)
(* A model of two parts of genji:                                          *)
(*                                                                         *)
(*   - document/encoding/msgpack/codec.go: the MessagePack Encoder and     *)
(*     Decoder of values, documents and arrays (specification CodecSpec);  *)
(*   - sql/tree/input.go: the index input node, the Stream it builds and   *)
(*     indexIterator.Iterate (specification Spec).                         *)
(*                                                                         *)
(* Bytes are the integers 0..255 and a stream is a sequence of bytes.      *)
(* 64-bit numbers (Integer, Double and Duration payloads) are kept as      *)
(* their 8 big-endian two's-complement bytes, so that no width is lost.    *)
(***************************************************************************)
EXTENDS Integers, Sequences, FiniteSets, TLC

(***************************************************************************)
(* Type markers of the MessagePack format (package msgpack/v5/codes).      *)
(***************************************************************************)
PosFixedNumHigh == 127
NegFixedNumLow == 224
Nil == 192
False == 194
True == 195
Float == 202
Double == 203
Uint8 == 204
Uint16 == 205
Uint32 == 206
Uint64 == 207
Int8 == 208
Int16 == 209
Int32 == 210
Int64 == 211
FixedStrLow == 160
FixedStrHigh == 191
Str8 == 217
Str16 == 218
Str32 == 219
Bin8 == 196
Bin16 == 197
Bin32 == 198
FixedArrayLow == 144
FixedArrayHigh == 159
Array16 == 220
Array32 == 221
FixedMapLow == 128
FixedMapHigh == 143
Map16 == 222
Map32 == 223
FixExt1 == 212
FixExt2 == 213
FixExt4 == 214
FixExt8 == 215
FixExt16 == 216
Ext8 == 199
Ext16 == 200
Ext32 == 201

\* List of custom types: const DurationType int8 = 0x1.
DurationType == 1

(***************************************************************************)
(* Byte helpers.                                                           *)
(***************************************************************************)
Take(s, n) == SubSeq(s, 1, n)

Drop(s, n) == SubSeq(s, n + 1, Len(s))

Rep(x, n) == [i \in 1..n |-> x]

\* The k big-endian bytes of the length n (n < 2^31, so bytes above the
\* fourth-lowest are zero).
BE(n, k) ==
    [i \in 1..k |->
        LET sh == k - i
        IN  IF sh >= 4 THEN 0
            ELSE (n \div (IF sh = 0 THEN 1 ELSE IF sh = 1 THEN 256
                          ELSE IF sh = 2 THEN 65536 ELSE 16777216)) % 256]

\* The length a big-endian byte string denotes.
RECURSIVE FromBE(_)
FromBE(s) ==
    IF s = <<>> THEN 0 ELSE FromBE(Take(s, Len(s) - 1)) * 256 + s[Len(s)]

\* int64(n) as 8 bytes, for a number n within 32 bits: byte(n >> 56) ..
\* byte(n): \div rounds down, so it is the arithmetic shift.
I64(n) ==
    [i \in 1..8 |->
        LET sh == 8 - i
        IN  IF sh >= 4 THEN (IF n < 0 THEN 255 ELSE 0)
            ELSE (n \div (IF sh = 0 THEN 1 ELSE IF sh = 1 THEN 256
                          ELSE IF sh = 2 THEN 65536 ELSE 16777216)) % 256]

\* A signed big-endian number of 1, 2, 4 or 8 bytes widened to int64.
SignExtend(s) == Rep(IF s[1] >= 128 THEN 255 ELSE 0, 8 - Len(s)) \o s

\* An unsigned big-endian number of 1, 2, 4 or 8 bytes converted to int64.
ZeroExtend(s) == Rep(0, 8 - Len(s)) \o s

(***************************************************************************)
(* document.Value: a type tag and a payload.  rep tells how the payload is *)
(* held: "scalar", "nilslice" (a Blob whose []byte is nil), "buffer" (a    *)
(* *FieldBuffer or a ValueBuffer, kids holds the fields or elements) or    *)
(* "encoded" (an EncodedDocument or EncodedArray, b holds the raw bytes).  *)
(***************************************************************************)
Val(type, rep, b, kids) == [type |-> type, rep |-> rep, b |-> b, kids |-> kids]

NoValue == Val("none", "scalar", <<>>, <<>>)

NewNullValue == Val("null", "scalar", <<>>, <<>>)

NewBoolValue(x) == Val("bool", "scalar", IF x THEN <<1>> ELSE <<0>>, <<>>)

NewIntegerValue(b8) == Val("integer", "scalar", b8, <<>>)

NewDoubleValue(b8) == Val("double", "scalar", b8, <<>>)

NewDurationValue(b8) == Val("duration", "scalar", b8, <<>>)

NewTextValue(s) == Val("text", "scalar", s, <<>>)

NewBlobValue(s) == Val("blob", "scalar", s, <<>>)

NilBlobValue == Val("blob", "nilslice", <<>>, <<>>)

NewArrayValue(elems) == Val("array", "buffer", <<>>, elems)

NewDocumentValue(fields) == Val("document", "buffer", <<>>, fields)

EncodedArray(raw) == Val("array", "encoded", raw, <<>>)

EncodedDocument(raw) == Val("document", "encoded", raw, <<>>)

Field(name, v) == [name |-> name, val |-> v]

(***************************************************************************)
(* The result of a read: st is "ok", "err" (an error is returned) or       *)
(* "panic" (the goroutine aborts); n is the number of bytes consumed.      *)
(***************************************************************************)
Res(st, v, n) == [st |-> st, v |-> v, n |-> n]

Failed(st) == Res(st, NoValue, 0)

\* codes.IsFixedNum, IsFixedMap, IsFixedArray, IsFixedString, IsString, IsExt.
IsFixedNum(c) == c <= PosFixedNumHigh \/ c >= NegFixedNumLow

IsFixedMap(c) == c >= FixedMapLow /\ c <= FixedMapHigh

IsFixedArray(c) == c >= FixedArrayLow /\ c <= FixedArrayHigh

IsFixedString(c) == c >= FixedStrLow /\ c <= FixedStrHigh

IsString(c) == IsFixedString(c) \/ c = Str8 \/ c = Str16 \/ c = Str32

IsExt(c) == (c >= FixExt1 /\ c <= FixExt16) \/ (c >= Ext8 /\ c <= Ext32)

\* The number of bytes that hold a length after the marker c.
LenBytes(c) ==
    IF c \in {Str8, Bin8, Ext8} THEN 1
    ELSE IF c \in {Str16, Bin16, Ext16, Array16, Map16} THEN 2
    ELSE IF c \in {Str32, Bin32, Ext32, Array32, Map32} THEN 4
    ELSE 0

\* The length a marker declares: held in the marker itself (fixed forms)
\* or in the LenBytes(c) bytes after it.  [st, len, n]: n bytes of header.
ReadLen(s) ==
    LET c == s[1]
        k == LenBytes(c)
    IN  IF IsFixedString(c) THEN [st |-> "ok", len |-> c - FixedStrLow, n |-> 1]
        ELSE IF IsFixedArray(c) THEN [st |-> "ok", len |-> c - FixedArrayLow, n |-> 1]
        ELSE IF IsFixedMap(c) THEN [st |-> "ok", len |-> c - FixedMapLow, n |-> 1]
        ELSE IF c = FixExt1 THEN [st |-> "ok", len |-> 1, n |-> 1]
        ELSE IF c = FixExt2 THEN [st |-> "ok", len |-> 2, n |-> 1]
        ELSE IF c = FixExt4 THEN [st |-> "ok", len |-> 4, n |-> 1]
        ELSE IF c = FixExt8 THEN [st |-> "ok", len |-> 8, n |-> 1]
        ELSE IF c = FixExt16 THEN [st |-> "ok", len |-> 16, n |-> 1]
        ELSE IF Len(s) < 1 + k THEN [st |-> "err", len |-> 0, n |-> 0]
        ELSE [st |-> "ok", len |-> FromBE(SubSeq(s, 2, 1 + k)), n |-> 1 + k]

\* msgpack.Decoder.DecodeString / DecodeBytes: the length, then the bytes.
DecodeBytes(s) ==
    LET h == ReadLen(s)
    IN  IF h.st # "ok" \/ Len(s) < h.n + h.len THEN [st |-> "err", b |-> <<>>, n |-> 0]
        ELSE [st |-> "ok", b |-> SubSeq(s, h.n + 1, h.n + h.len), n |-> h.n + h.len]

DecodeString(s) ==
    IF s = <<>> THEN [st |-> "err", b |-> <<>>, n |-> 0]
    ELSE IF s[1] = Nil THEN [st |-> "ok", b |-> <<>>, n |-> 1]
    ELSE IF ~(IsString(s[1]) \/ s[1] \in {Bin8, Bin16, Bin32})
    THEN [st |-> "err", b |-> <<>>, n |-> 0]
    ELSE DecodeBytes(s)

\* msgpack.Decoder.DecodeExtHeader: the declared length and then the type
\* id, an int8.
DecodeExtHeader(s) ==
    LET h == ReadLen(s)
    IN  IF h.st # "ok" \/ Len(s) < h.n + 1
        THEN [st |-> "err", tp |-> 0, len |-> 0, n |-> 0]
        ELSE [st |-> "ok",
              tp |-> IF s[h.n + 1] >= 128 THEN s[h.n + 1] - 256 ELSE s[h.n + 1],
              len |-> h.len, n |-> h.n + 1]

\* msgpack.Decoder.DecodeInt64: any integer marker, widened to int64.
DecodeInt64(s) ==
    LET c == s[1]
        w == IF c \in {Uint8, Int8} THEN 1
             ELSE IF c \in {Uint16, Int16} THEN 2
             ELSE IF c \in {Uint32, Int32} THEN 4 ELSE 8
    IN  IF IsFixedNum(c) THEN [st |-> "ok", b |-> SignExtend(<<c>>), n |-> 1]
        ELSE IF Len(s) < 1 + w THEN [st |-> "err", b |-> <<>>, n |-> 0]
        ELSE [st |-> "ok",
              b |-> IF c \in {Int8, Int16, Int32, Int64}
                    THEN SignExtend(SubSeq(s, 2, 1 + w))
                    ELSE ZeroExtend(SubSeq(s, 2, 1 + w)),
              n |-> 1 + w]

\* msgpack.Decoder.DecodeFloat64 on a Double marker: the 8 bytes.
DecodeFloat64(s) ==
    IF Len(s) < 9 THEN [st |-> "err", b |-> <<>>, n |-> 0]
    ELSE [st |-> "ok", b |-> SubSeq(s, 2, 9), n |-> 9]

(***************************************************************************)
(* msgpack.Decoder.Skip, which DecodeRaw records: it walks one value to    *)
(* find where it ends, without building it.  [st, n].                      *)
(***************************************************************************)
RECURSIVE Skip(_)
RECURSIVE SkipMany(_, _)
SkipMany(s, count) ==
    IF count = 0 THEN [st |-> "ok", n |-> 0]
    ELSE LET a == Skip(s)
         IN  IF a.st # "ok" THEN a
             ELSE LET r == SkipMany(Drop(s, a.n), count - 1)
                  IN  IF r.st # "ok" THEN r ELSE [st |-> "ok", n |-> a.n + r.n]

Skip(s) ==
    IF s = <<>> THEN [st |-> "err", n |-> 0]
    ELSE
    LET c == s[1]
        h == ReadLen(s)
        fixed == IF c \in {Nil, False, True} \/ IsFixedNum(c) THEN 0
                 ELSE IF c \in {Uint8, Int8} THEN 1
                 ELSE IF c \in {Uint16, Int16} THEN 2
                 ELSE IF c \in {Uint32, Int32, Float} THEN 4
                 ELSE IF c \in {Uint64, Int64, Double} THEN 8
                 ELSE -1
    IN  IF fixed >= 0
        THEN IF Len(s) < 1 + fixed THEN [st |-> "err", n |-> 0]
             ELSE [st |-> "ok", n |-> 1 + fixed]
        ELSE IF IsString(c) \/ c \in {Bin8, Bin16, Bin32}
        THEN IF h.st # "ok" \/ Len(s) < h.n + h.len THEN [st |-> "err", n |-> 0]
             ELSE [st |-> "ok", n |-> h.n + h.len]
        ELSE IF IsExt(c)
        THEN IF h.st # "ok" \/ Len(s) < h.n + h.len + 1 THEN [st |-> "err", n |-> 0]
             ELSE [st |-> "ok", n |-> h.n + h.len + 1]
        ELSE IF IsFixedArray(c) \/ c \in {Array16, Array32}
        THEN IF h.st # "ok" THEN [st |-> "err", n |-> 0]
             ELSE LET r == SkipMany(Drop(s, h.n), h.len)
                  IN  IF r.st # "ok" THEN r ELSE [st |-> "ok", n |-> h.n + r.n]
        ELSE IF IsFixedMap(c) \/ c \in {Map16, Map32}
        THEN IF h.st # "ok" THEN [st |-> "err", n |-> 0]
             ELSE LET r == SkipMany(Drop(s, h.n), 2 * h.len)
                  IN  IF r.st # "ok" THEN r ELSE [st |-> "ok", n |-> h.n + r.n]
        ELSE [st |-> "err", n |-> 0]

\* msgpack.Decoder.DecodeRaw: the bytes of one value, delimited by Skip.
Recorded(s, r) ==
    IF r.st # "ok" THEN [st |-> "err", b |-> <<>>, n |-> 0]
    ELSE [st |-> "ok", b |-> Take(s, r.n), n |-> r.n]

DecodeRaw(s) == Recorded(s, Skip(s))

(***************************************************************************)
(* Decoder.DecodeDocument and Decoder.DecodeArray: one raw value, wrapped  *)
(* in a lazy handle.                                                       *)
(***************************************************************************)
\* Mutant: the contents are decoded before the handle is returned.
RECURSIVE DeepIterate(_)
EagerLazy(type, r) ==
    IF r.st # "ok" THEN Failed("err")
    ELSE IF DeepIterate(Val(type, "encoded", r.b, <<>>)) # "ok" THEN Failed("err")
    ELSE Res("ok", Val(type, "encoded", r.b, <<>>), r.n)

\* if err != nil { return nil, err }; return EncodedDocument(r), nil
Lazy(type, r) ==
    IF r.st # "ok" THEN Failed("err") ELSE Res("ok", Val(type, "encoded", r.b, <<>>), r.n)

DecodeDocument(s) == Lazy("document", DecodeRaw(s))

DecodeArray(s) == Lazy("array", DecodeRaw(s))

(***************************************************************************)
(* Decoder.DecodeValue: reads one value from the stream s.                 *)
(***************************************************************************)
\* The custom-code branch (codec.go 231-259).
DecodeExt(s) ==
    LET h == DecodeExtHeader(s)
    IN  IF h.st # "ok" THEN Failed("err")
        ELSE IF h.tp # DurationType THEN Failed("panic")
        \* var buf [8]byte; ReadFull(buf[:]): 8 bytes, whatever h.len is.
        ELSE IF Len(s) < h.n + 8 THEN Failed("err")
        ELSE Res("ok", NewDurationValue(SubSeq(s, h.n + 1, h.n + 8)), h.n + 8)

\* The final switch (codec.go 261-300).
DecodeRest(s) ==
    LET c == s[1]
    IN  IF c = Nil THEN Res("ok", NewNullValue, 1)
        ELSE IF c \in {Bin8, Bin16, Bin32}
        THEN LET r == DecodeBytes(s)
             IN  IF r.st # "ok" THEN Failed("err") ELSE Res("ok", NewBlobValue(r.b), r.n)
        ELSE IF c \in {True, False} THEN Res("ok", NewBoolValue(c = True), 1)
        ELSE IF c \in {Int8, Int16, Int32, Int64, Uint8, Uint16, Uint32, Uint64}
        THEN LET r == DecodeInt64(s)
             IN  IF r.st # "ok" THEN Failed("err") ELSE Res("ok", NewIntegerValue(r.b), r.n)
        ELSE IF c = Double
        THEN LET r == DecodeFloat64(s)
             IN  IF r.st # "ok" THEN Failed("err") ELSE Res("ok", NewDoubleValue(r.b), r.n)
        ELSE Failed("panic")

DecodeValue(s) ==
    IF s = <<>> THEN Failed("err")
    ELSE
    LET c == s[1]
    IN  IF IsFixedArray(c) \/ c = Array16 \/ c = Array32 THEN DecodeArray(s)
        ELSE IF IsFixedMap(c) \/ c = Map16 \/ c = Map32 THEN DecodeDocument(s)
        ELSE IF IsString(c)
        THEN LET r == DecodeString(s)
             IN  IF r.st # "ok" THEN Failed("err") ELSE Res("ok", NewTextValue(r.b), r.n)
        ELSE IF IsExt(c) THEN DecodeExt(s)
        ELSE DecodeRest(s)

(***************************************************************************)
(* Iteration over a Document or an Array.  A *FieldBuffer or ValueBuffer   *)
(* yields what it holds; an EncodedDocument or EncodedArray decodes its    *)
(* raw bytes one entry at a time and stops at the first entry it cannot    *)
(* decode.  [st, items]: the entries yielded before the end or failure.    *)
(***************************************************************************)
Yield(item, r) == [st |-> r.st, items |-> <<item>> \o r.items]

RECURSIVE IterEncodedFields(_, _)
NextField(s, count, k, v) ==
    IF k.st # "ok" THEN [st |-> "err", items |-> <<>>]
    ELSE IF v.st # "ok" THEN [st |-> v.st, items |-> <<>>]
    ELSE Yield(Field(k.b, v.v), IterEncodedFields(Drop(s, k.n + v.n), count - 1))

IterEncodedFields(s, count) ==
    IF count = 0 THEN [st |-> "ok", items |-> <<>>]
    ELSE NextField(s, count, DecodeString(s), DecodeValue(Drop(s, DecodeString(s).n)))

RECURSIVE IterEncodedElems(_, _)
NextElem(s, count, v) ==
    IF v.st # "ok" THEN [st |-> v.st, items |-> <<>>]
    ELSE Yield(v.v, IterEncodedElems(Drop(s, v.n), count - 1))

IterEncodedElems(s, count) ==
    IF count = 0 THEN [st |-> "ok", items |-> <<>>]
    ELSE NextElem(s, count, DecodeValue(s))

\* EncodedDocument.Iterate: the map length, then each name and value.
EncodedDocumentIterate(raw) ==
    IF raw = <<>> \/ ~(IsFixedMap(raw[1]) \/ raw[1] \in {Map16, Map32})
    THEN [st |-> "err", items |-> <<>>]
    ELSE LET h == ReadLen(raw)
         IN  IF h.st # "ok" THEN [st |-> "err", items |-> <<>>]
             ELSE IterEncodedFields(Drop(raw, h.n), h.len)

\* EncodedArray.Iterate: the array length, then each element.
EncodedArrayIterate(raw) ==
    IF raw = <<>> \/ ~(IsFixedArray(raw[1]) \/ raw[1] \in {Array16, Array32})
    THEN [st |-> "err", items |-> <<>>]
    ELSE LET h == ReadLen(raw)
         IN  IF h.st # "ok" THEN [st |-> "err", items |-> <<>>]
             ELSE IterEncodedElems(Drop(raw, h.n), h.len)

\* Document.Iterate and Array.Iterate, by the representation.
DocumentIterate(d) ==
    IF d.rep = "buffer" THEN [st |-> "ok", items |-> d.kids]
    ELSE EncodedDocumentIterate(d.b)

ArrayIterate(a) ==
    IF a.rep = "buffer" THEN [st |-> "ok", items |-> a.kids]
    ELSE EncodedArrayIterate(a.b)

\* document.Length and document.ArrayLength: count by iterating once.
Counted(it) == [st |-> it.st, len |-> IF it.st = "ok" THEN Len(it.items) ELSE 0]

Length(d) == Counted(DocumentIterate(d))

ArrayLength(a) == Counted(ArrayIterate(a))

(***************************************************************************)
(* The msgpack.Encoder primitives the Encoder calls.                       *)
(***************************************************************************)
EncodeNil == <<Nil>>

EncodeBool(x) == IF x THEN <<True>> ELSE <<False>>

\* EncodeInt64 writes the Int64 marker and 8 bytes, whatever the number.
EncodeInt64(b8) == <<Int64>> \o b8

EncodeFloat64(b8) == <<Double>> \o b8

EncodeMapLen(l) ==
    IF l < 16 THEN <<FixedMapLow + l>>
    ELSE IF l < 65536 THEN <<Map16>> \o BE(l, 2) ELSE <<Map32>> \o BE(l, 4)

EncodeArrayLen(l) ==
    IF l < 16 THEN <<FixedArrayLow + l>>
    ELSE IF l < 65536 THEN <<Array16>> \o BE(l, 2) ELSE <<Array32>> \o BE(l, 4)

EncodeString(str) ==
    LET l == Len(str)
    IN  (IF l < 32 THEN <<FixedStrLow + l>>
         ELSE IF l < 256 THEN <<Str8, l>>
         ELSE IF l < 65536 THEN <<Str16>> \o BE(l, 2) ELSE <<Str32>> \o BE(l, 4))
        \o str

\* EncodeBytes writes a nil slice as the nil marker.
EncodeBytes(v) ==
    IF v.rep = "nilslice" THEN EncodeNil
    ELSE LET l == Len(v.b)
         IN  (IF l < 256 THEN <<Bin8, l>>
              ELSE IF l < 65536 THEN <<Bin16>> \o BE(l, 2) ELSE <<Bin32>> \o BE(l, 4))
             \o v.b

EncodeExtHeader(typeId, length) ==
    (IF length = 1 THEN <<FixExt1>>
     ELSE IF length = 2 THEN <<FixExt2>>
     ELSE IF length = 4 THEN <<FixExt4>>
     ELSE IF length = 8 THEN <<FixExt8>>
     ELSE IF length = 16 THEN <<FixExt16>>
     ELSE IF length < 256 THEN <<Ext8, length>>
     ELSE IF length < 65536 THEN <<Ext16>> \o BE(length, 2)
     ELSE <<Ext32>> \o BE(length, 4))
    \o <<typeId % 256>>

(***************************************************************************)
(* Encoder.EncodeDocument, Encoder.EncodeArray and Encoder.EncodeValue.    *)
(* [st, out, hdr, n]: the bytes written, the count written as the length   *)
(* prefix (-1 for a scalar) and the number of entries written after it.    *)
(***************************************************************************)
Enc(st, out, hdr, n) == [st |-> st, out |-> out, hdr |-> hdr, n |-> n]

\* Mutant: a FieldBuffer's length counted as its distinct field names.
DistinctLen(d) ==
    IF d.rep = "buffer"
    THEN [st |-> "ok", len |-> Cardinality({d.kids[i].name : i \in 1..Len(d.kids)})]
    ELSE Length(d)

\* The length EncodeDocument writes: fb.Len() or document.Length(d).
DocumentLen(d) ==
    IF d.rep = "buffer" THEN [st |-> "ok", len |-> Len(d.kids)] ELSE Length(d)

\* The length EncodeArray writes: len(vb) or document.ArrayLength(a).
ArrayLen(a) ==
    IF a.rep = "buffer" THEN [st |-> "ok", len |-> Len(a.kids)] ELSE ArrayLength(a)

RECURSIVE EncodeValue(_)
RECURSIVE EncodeFields(_, _)
RECURSIVE EncodeElems(_, _)

\* d.Iterate's callback over the fields from the i-th on; st0 is how the
\* iteration itself ends after the last field it yields.
\* One more entry written, then the rest r of the iteration.
Then(r) == Enc(r.st, r.out, -1, r.n + 1)

\* The bytes w written, then what the entry e writes (a failure of e ends
\* the iteration), then the rest.
Written(w, e, rest) ==
    IF e.st # "ok" THEN Enc(e.st, w \o e.out, -1, 0)
    ELSE Enc(rest.st, w \o e.out \o rest.out, -1, rest.n)

EncodeFields(it, i) ==
    IF i > Len(it.items) THEN Enc(it.st, <<>>, -1, 0)
    ELSE Written(EncodeString(it.items[i].name), EncodeValue(it.items[i].val),
                 Then(EncodeFields(it, i + 1)))

EncodeElems(it, i) ==
    IF i > Len(it.items) THEN Enc(it.st, <<>>, -1, 0)
    ELSE Written(<<>>, EncodeValue(it.items[i]), Then(EncodeElems(it, i + 1)))

\* The length prefix hdr for the length l, then the entries r.
Prefixed(l, hdr, r) ==
    IF l.st # "ok" THEN Enc(l.st, <<>>, -1, 0)
    ELSE Enc(r.st, hdr \o r.out, l.len, r.n)

EncodeDocument(d) ==
    Prefixed(DocumentLen(d), EncodeMapLen(DocumentLen(d).len),
             EncodeFields(DocumentIterate(d), 1))

EncodeArray(a) ==
    Prefixed(ArrayLen(a), EncodeArrayLen(ArrayLen(a).len),
             EncodeElems(ArrayIterate(a), 1))

\* The Duration branch: the extension header for 8 bytes, then the 8
\* bytes of uint64(d), the highest first.
EncodeDuration(v) == EncodeExtHeader(DurationType, 8) \o v.b

EncodeValue(v) ==
    CASE v.type = "document" -> EncodeDocument(v)
      [] v.type = "array" -> EncodeArray(v)
      [] v.type = "null" -> Enc("ok", EncodeNil, -1, 0)
      [] v.type = "text" -> Enc("ok", EncodeString(v.b), -1, 0)
      [] v.type = "blob" -> Enc("ok", EncodeBytes(v), -1, 0)
      [] v.type = "bool" -> Enc("ok", EncodeBool(v.b = <<1>>), -1, 0)
      [] v.type = "integer" -> Enc("ok", EncodeInt64(v.b), -1, 0)
      [] v.type = "double" -> Enc("ok", EncodeFloat64(v.b), -1, 0)
      [] v.type = "duration" -> Enc("ok", EncodeDuration(v), -1, 0)
      \* e.enc.Encode(v.V) of a Value with no payload: nil.
      [] OTHER -> Enc("ok", EncodeNil, -1, 0)

(***************************************************************************)
(* A consumer that walks a decoded value to its leaves: Iterate on the     *)
(* container and on every container inside it.  "ok", "err" or "panic".    *)
(***************************************************************************)
RECURSIVE DeepAll(_, _)
First(st, rest) == IF st # "ok" THEN st ELSE rest

DeepAll(items, i) ==
    IF i > Len(items) THEN "ok"
    ELSE First(DeepIterate(IF "val" \in DOMAIN items[i] THEN items[i].val ELSE items[i]),
               DeepAll(items, i + 1))

Walk(it) == First(DeepAll(it.items, 1), it.st)

DeepIterate(v) ==
    IF v.type = "document" THEN Walk(DocumentIterate(v))
    ELSE IF v.type = "array" THEN Walk(ArrayIterate(v))
    ELSE "ok"

(***************************************************************************)
(* The values handed to the encoder.                                       *)
(***************************************************************************)
MinInt64 == <<128, 0, 0, 0, 0, 0, 0, 0>>

MaxInt64 == <<127, 255, 255, 255, 255, 255, 255, 255>>

TextA == <<97>>

TextB == <<98>>

LongText == Rep(120, 32)

Scalars ==
    {NewNullValue, NewBoolValue(TRUE), NewBoolValue(FALSE)}
    \cup {NewIntegerValue(b) : b \in {I64(0), I64(-1), I64(127), I64(128),
                                     I64(-33), MinInt64, MaxInt64}}
    \cup {NewDoubleValue(b) : b \in {I64(0), <<63, 248, 0, 0, 0, 0, 0, 0>>,
                                    <<192, 0, 0, 0, 0, 0, 0, 0>>}}
    \cup {NewDurationValue(b) : b \in {I64(0), I64(-1), I64(1000000000),
                                      I64(-1000000000), MinInt64, MaxInt64}}
    \cup {NewTextValue(t) : t \in {<<>>, TextA, LongText}}
    \cup {NewBlobValue(t) : t \in {<<>>, <<0, 255>>}}
    \cup {NilBlobValue}

InnerArray == NewArrayValue(<<NewBoolValue(TRUE), NewNullValue>>)

Buffers ==
    {NewArrayValue(<<>>), NewDocumentValue(<<>>),
     NewArrayValue(<<NewIntegerValue(I64(1)), NewDurationValue(I64(-1))>>),
     NewArrayValue(<<NewBlobValue(<<>>), InnerArray, NewTextValue(<<>>)>>),
     NewDocumentValue(<<Field(TextA, NewIntegerValue(I64(1))), Field(TextB, InnerArray)>>),
     NewDocumentValue(<<Field(TextB, NewDoubleValue(I64(0))), Field(TextB, NewNullValue),
                        Field(TextA, NewDurationValue(I64(1)))>>),
     NewDocumentValue(<<Field(TextA,
         NewDocumentValue(<<Field(TextB, NewDoubleValue(<<63, 248, 0, 0, 0, 0, 0, 0>>))>>))>>)}

\* Raw bytes another writer, or a damaged store, may hold: an array whose
\* element is a 4-byte block tagged 0x1, an array that declares 2 elements
\* and holds 1, a map that declares 2 fields and holds 1, a map whose
\* value is a single-byte integer, an array with a 32-bit float.
BadExtArray == <<FixedArrayLow + 1, FixExt4, 1, 0, 0, 0, 1>>

ShortArray == <<FixedArrayLow + 2, Nil>>

ShortMap == <<FixedMapLow + 2, FixedStrLow + 1, 97, Nil>>

FixNumMap == <<FixedMapLow + 1, FixedStrLow + 1, 97, 5>>

FloatArray == <<FixedArrayLow + 1, Float, 0, 0, 0, 0>>

UnknownArray == <<FixedArrayLow + 1, 193>>

\* Documents and arrays that are lazy handles: over bytes the encoder
\* wrote, and over the raw bytes above.
Lazies ==
    {EncodedDocument(EncodeValue(d).out) : d \in {b \in Buffers : b.type = "document"}}
    \cup {EncodedArray(EncodeValue(a).out) : a \in {b \in Buffers : b.type = "array"}}
    \cup {EncodedDocument(ShortMap), EncodedDocument(FixNumMap),
          EncodedArray(BadExtArray), EncodedArray(ShortArray),
          NewDocumentValue(<<Field(TextA, EncodedArray(BadExtArray))>>),
          NewArrayValue(<<NewNullValue, EncodedDocument(ShortMap)>>)}

Values == Scalars \cup Buffers \cup Lazies

\* The values that may follow the first one on the stream.
Trailers == {NewNullValue, NewIntegerValue(I64(1)), NewDurationValue(I64(-1))}

\* The most values one stream holds.
MaxVals == 2

RECURSIVE Inputs(_)
Inputs(k) ==
    IF k = 0 THEN {<<>>}
    ELSE IF k = 1 THEN {<<>>} \cup {<<v>> : v \in Values}
    ELSE Inputs(k - 1) \cup
         {Append(q, t) : q \in {p \in Inputs(k - 1) : Len(p) = k - 1}, t \in Trailers}

(***************************************************************************)
(* Blocks the encoder did not write.  kind: "int" (a value of the integer  *)
(* family, want its number as int64), "ext" (an extension block) and "doc" *)
(* (a document that holds a malformed nested array).                       *)
(***************************************************************************)
Block(kind, bytes, want) == [kind |-> kind, bytes |-> bytes, want |-> want]

ForeignBlocks ==
    {Block("int", <<5>>, I64(5)),
     Block("int", <<255>>, I64(-1)),
     Block("int", <<Uint8, 200>>, I64(200)),
     Block("int", <<Int8, 128>>, I64(-128)),
     Block("int", <<Uint16, 1, 0>>, I64(256)),
     Block("int", <<Int16, 255, 0>>, I64(-256)),
     Block("int", <<Uint32, 0, 1, 0, 0>>, I64(65536)),
     Block("int", <<Int32, 255, 255, 255, 254>>, I64(-2)),
     Block("int", <<Uint64>> \o I64(7), I64(7)),
     Block("int", <<Int64>> \o MinInt64, MinInt64),
     Block("ext", <<FixExt8, 1>> \o I64(-1), <<>>),
     Block("ext", <<FixExt4, 1, 0, 0, 0, 1>>, <<>>),
     Block("ext", <<Ext8, 8, 1>> \o I64(3), <<>>),
     Block("ext", <<FixExt8, 2>> \o I64(3), <<>>),
     Block("doc", <<FixedMapLow + 1, FixedStrLow + 1, 97>> \o BadExtArray, <<>>),
     Block("doc", <<FixedMapLow + 1, FixedStrLow + 1, 97>> \o FloatArray, <<>>),
     Block("doc", <<FixedMapLow + 1, FixedStrLow + 1, 97>> \o ShortArray, <<>>),
     Block("doc", <<FixedMapLow + 1, FixedStrLow + 1, 97>> \o UnknownArray, <<>>)}

(***************************************************************************)
(* State.                                                                  *)
(*                                                                         *)
(* The codec: an Encoder writes the values vals, one call at a time, to    *)
(* the stream wire; a Decoder then reads the stream from the start.        *)
(*   segs   what was written, in order: [kind, idx, at, out, st, hdr, n,   *)
(*          blk], the segment's offset and bytes on the wire and, for an   *)
(*          encoder call, how it ended                                     *)
(*   rpos   the number of bytes the Decoder has consumed                   *)
(*   decs   the result of each Decoder call: [st, v, n, at, api]           *)
(*   walks  for each Decoder call, how a later walk of the value ended:    *)
(*          [outer, deep], or NoWalk                                       *)
(*   phase  "write" while the Encoder is at work, "read" afterwards        *)
(***************************************************************************)
VARIABLES vals, wire, segs, rpos, decs, walks, phase

cvars == <<vals, wire, segs, rpos, decs, walks, phase>>

NoBlock == Block("none", <<>>, <<>>)

NoWalk == [outer |-> "none", deep |-> "none"]

Seg(kind, idx, at, r, blk) ==
    [kind |-> kind, idx |-> idx, at |-> at, out |-> r.out, st |-> r.st,
     hdr |-> r.hdr, n |-> r.n, blk |-> blk]

Write(seg) ==
    /\ wire' = wire \o seg.out
    /\ segs' = Append(segs, seg)

Encoded == {i \in 1..Len(segs) : segs[i].kind = "value"}

CodecInit ==
    /\ vals \in Inputs(MaxVals)
    /\ wire = <<>>
    /\ segs = <<>>
    /\ rpos = 0
    /\ decs = <<>>
    /\ walks = <<>>
    /\ phase = "write"

\* Encoder.EncodeValue(vals[i]) for the next value: what it writes reaches
\* the stream even when the call then fails.
EncodeValueStep ==
    /\ phase = "write"
    /\ Cardinality(Encoded) < Len(vals)
    /\ Write(Seg("value", Cardinality(Encoded) + 1, Len(wire),
                  EncodeValue(vals[Cardinality(Encoded) + 1]), NoBlock))
    /\ UNCHANGED <<vals, rpos, decs, walks, phase>>

\* Another writer puts a block on the stream; a stream holds at most one
\* such block.
WriteForeign ==
    /\ phase = "write"
    /\ \A i \in 1..Len(segs) : segs[i].kind # "foreign"
    /\ \E b \in ForeignBlocks :
          Write(Seg("foreign", 0, Len(wire), Enc("ok", b.bytes, -1, 0), b))
    /\ UNCHANGED <<vals, rpos, decs, walks, phase>>

\* The Decoder can be called: something was written and no call failed.
CanDecode ==
    /\ segs # <<>>
    /\ \A i \in 1..Len(decs) : decs[i].st = "ok"

Decoded(api, r) ==
    /\ decs' = Append(decs, [st |-> r.st, v |-> r.v, n |-> r.n, at |-> rpos, api |-> api])
    /\ rpos' = rpos + r.n
    /\ walks' = Append(walks, NoWalk)
    /\ phase' = "read"
    /\ UNCHANGED <<vals, wire, segs>>

\* Decoder.DecodeValue on the rest of the stream.
DecodeValueStep ==
    /\ CanDecode
    /\ Decoded("value", DecodeValue(Drop(wire, rpos)))

\* Decoder.DecodeDocument, called where a document is expected.
DecodeDocumentStep ==
    /\ CanDecode
    /\ rpos < Len(wire)
    /\ IsFixedMap(wire[rpos + 1]) \/ wire[rpos + 1] \in {Map16, Map32}
    /\ Decoded("document", DecodeDocument(Drop(wire, rpos)))

\* Decoder.DecodeArray, called where an array is expected.
DecodeArrayStep ==
    /\ CanDecode
    /\ rpos < Len(wire)
    /\ IsFixedArray(wire[rpos + 1]) \/ wire[rpos + 1] \in {Array16, Array32}
    /\ Decoded("array", DecodeArray(Drop(wire, rpos)))

\* The caller walks the container the last call returned.
IterateStep ==
    /\ decs # <<>>
    /\ LET k == Len(decs)
           v == decs[k].v
       IN  /\ decs[k].st = "ok"
           /\ v.type \in {"document", "array"}
           /\ walks[k] = NoWalk
           /\ walks' = [walks EXCEPT ![k] =
                 [outer |-> IF v.type = "document" THEN DocumentIterate(v).st
                            ELSE ArrayIterate(v).st,
                  deep |-> DeepIterate(v)]]
    /\ UNCHANGED <<vals, wire, segs, rpos, decs, phase>>

(***************************************************************************)
(* sql/tree/input.go: the index input node and its Stream.                 *)
(*                                                                         *)
(* The collaborators are the transaction (GetTable, GetIndex), the table   *)
(* (GetDocument), the index (its ordered traversals), the expression       *)
(* evaluator (Eval) and the consumer's callback fn.                        *)
(***************************************************************************)
\* The zero values of the fields ToStream leaves unset.
NilOp == "nil"

NilExpr == "nil"

ZeroToken == "ILLEGAL"

\* Errors of the collaborators.
ErrTableNotFound == "table not found"

ErrIndexNotFound == "index not found"

ErrDocumentNotFound == "document not found"

ErrEval == "param not found"

ErrConsumer == "consumer failed"

\* errStop, the sentinel of an early stop.
errStop == "stop"

\* A numeric or text Value of the query layer.
Num(type, n) == [type |-> type, n |-> n]

\* expr.Expr.Eval on the filter expressions of the model: an Integer
\* literal, a Text literal, and a parameter that is not bound.
Eval(e) ==
    CASE e = "int2" -> [err |-> "nil", v |-> Num("integer", 2)]
      [] e = "text" -> [err |-> "nil", v |-> Num("text", 0)]
      [] OTHER -> [err |-> ErrEval, v |-> Num("null", 0)]

\* Type.IsNumber and Value.ConvertTo(document.Float64Value).
IsNumber(v) == v.type \in {"integer", "double"}

ConvertToFloat64(v) == Num("double", v.n)

\* An index entry: the indexed value and the primary key.
Entry(k) == [val |-> Num("double", k), key |-> k]

Reverse(q) == [i \in 1..Len(q) |-> q[Len(q) + 1 - i]]

\* index.AscendGreaterOrEqual(nil, ..) and index.DescendLessOrEqual(nil,
\* ..): the pairs in the order the traversal visits them.
AscendGreaterOrEqual(idx) == idx

DescendLessOrEqual(idx) == Reverse(idx)

RECURSIVE SelectSeq2(_, _, _)
SelectSeq2(q, op, v) ==
    IF q = <<>> THEN <<>>
    ELSE LET keep == /\ q[1].val.type = v.type
                     /\ IF op = "gt" THEN q[1].val.n > v.n ELSE q[1].val.n = v.n
         IN  (IF keep THEN <<q[1]>> ELSE <<>>) \o SelectSeq2(Tail(q), op, v)

\* indexIteratorOperator.IterateIndex of the operators "gt" and "eq": the
\* pairs the bounded seek visits, in index order.
IterateIndex(op, idx, v) == SelectSeq2(idx, op, v)

\* newIndexInputNode(tableName, indexName, iop, filter, orderByDirection).
newIndexInputNode(iop, filter, orderByDirection) ==
    [iop |-> iop, e |-> filter, orderByDirection |-> orderByDirection]

\* The indexIterator that ToStream builds: tx, tb, params, index and e are
\* set; iop and orderByDirection keep their zero values.
\* Mutant: ToStream evaluates the filter while it builds the iterator.
EvalAtToStream(n) ==
    [e |-> n.e, iop |-> NilOp, orderByDirection |-> ZeroToken,
     evals |-> IF n.e = NilExpr THEN 0 ELSE 1]

NewIndexIterator(n) ==
    [e |-> n.e, iop |-> NilOp, orderByDirection |-> ZeroToken, evals |-> 0]

NoIterator == [e |-> NilExpr, iop |-> NilOp, orderByDirection |-> ZeroToken, evals |-> 0]

\* Iterate without a filter: the traversal chosen by it.orderByDirection.
FullTraversal(i, idx) ==
    IF i.orderByDirection = "DESC" THEN DescendLessOrEqual(idx)
    ELSE AscendGreaterOrEqual(idx)

\* The bound handed to the operator: a number is converted to Double.
Widen(v) == IF IsNumber(v) THEN ConvertToFloat64(v) ELSE v

\* The callback Iterate hands to the traversal: the error of GetDocument,
\* or else what fn returns for the document.
\* Mutants of the callback: one skips an entry whose document is missing,
\* one drops what fn returns.
SkipMissing(getErr, fnRet) == IF getErr # "nil" THEN "nil" ELSE fnRet

IgnoreFn(getErr, fnRet) == IF getErr # "nil" THEN getErr ELSE "nil"

Callback(getErr, fnRet) == IF getErr # "nil" THEN getErr ELSE fnRet

\* The index contents of the model, each in ascending key order.
IndexChoices == {<<>>, <<Entry(10), Entry(20), Entry(30)>>,
                 <<Entry(1), Entry(2), Entry(3), Entry(4)>>}

Keys(idx) == {idx[i].key : i \in 1..Len(idx)}

\* The most calls of Iterate on one Stream.
MaxIterates == 2

(***************************************************************************)
(* State of the index input node and its Stream.                           *)
(*   node      the indexInputNode                                          *)
(*   tx        which of the table and the index the transaction holds      *)
(*   index     the index entries, ascending                                *)
(*   table     the primary keys the table holds a document for             *)
(*   consumer  what fn does: [mode, at]: "all" continues, "stop" returns   *)
(*             the stop signal at the at-th document, "fail" an error      *)
(*   it        the indexIterator of the Stream                             *)
(*   pc        "node", "stream", "nostream", "iterating", "returned",      *)
(*             "panicked"                                                  *)
(*   plan      the pairs the running traversal has yet to visit            *)
(*   visits    the keys the traversal visited in this Iterate, in order    *)
(*   fetched   the keys GetDocument returned a document for, in order      *)
(*   yielded   the keys of the documents handed to fn, in order            *)
(*   evals     the number of Eval calls so far                             *)
(*   iterCalls the number of Iterate calls so far                          *)
(*   result    what ToStream or the last Iterate returned                  *)
(***************************************************************************)
VARIABLES node, tx, index, table, consumer, it, pc, plan, visits, fetched,
          yielded, evals, iterCalls, result

ivars == <<node, tx, index, table, consumer, it, pc, plan, visits, fetched,
           yielded, evals, iterCalls, result>>

vars == <<cvars, ivars>>

IterInit ==
    /\ \E iop \in {"gt", "eq"}, e \in {NilExpr, "int2", "text", "unbound"},
          dir \in {"ASC", "DESC", ZeroToken} :
          node = newIndexInputNode(iop, e, dir)
    /\ tx \in [hasTable : BOOLEAN, hasIndex : BOOLEAN]
    /\ index \in IndexChoices
    /\ \E missing \in {{}} \cup {{k} : k \in Keys(index)} : table = Keys(index) \ missing
    /\ consumer \in [mode : {"all", "stop", "fail"}, at : 1..2]
    /\ it = NoIterator
    /\ pc = "node"
    /\ plan = <<>>
    /\ visits = <<>>
    /\ fetched = <<>>
    /\ yielded = <<>>
    /\ evals = 0
    /\ iterCalls = 0
    /\ result = "none"

\* indexInputNode.ToStream.
ToStream ==
    /\ pc = "node"
    /\ IF ~tx.hasTable THEN /\ result' = ErrTableNotFound
                            /\ pc' = "nostream"
                            /\ UNCHANGED <<it, evals>>
       ELSE IF ~tx.hasIndex THEN /\ result' = ErrIndexNotFound
                                 /\ pc' = "nostream"
                                 /\ UNCHANGED <<it, evals>>
       ELSE /\ it' = NewIndexIterator(node)
            /\ evals' = evals + NewIndexIterator(node).evals
            /\ pc' = "stream"
            /\ result' = "nil"
    /\ UNCHANGED <<node, tx, index, table, consumer, plan, visits, fetched,
                   yielded, iterCalls>>

CanIterate == pc \in {"stream", "returned"} /\ iterCalls < MaxIterates

Begin ==
    /\ iterCalls' = iterCalls + 1
    /\ visits' = <<>>
    /\ fetched' = <<>>
    /\ yielded' = <<>>
    /\ UNCHANGED <<node, tx, index, table, consumer, it>>

\* Iterate, it.e == nil: the full traversal starts.
IterateFull ==
    /\ CanIterate
    /\ it.e = NilExpr
    /\ Begin
    /\ plan' = FullTraversal(it, index)
    /\ pc' = "iterating"
    /\ result' = "none"
    /\ UNCHANGED evals

\* Iterate, it.e != nil: Eval, the conversion, and the call of it.iop,
\* which aborts when it.iop holds no operator.
IterateFiltered ==
    /\ CanIterate
    /\ it.e # NilExpr
    /\ Begin
    /\ evals' = evals + 1
    /\ IF Eval(it.e).err # "nil"
       THEN /\ result' = Eval(it.e).err
            /\ pc' = "returned"
            /\ plan' = <<>>
       ELSE IF it.iop = NilOp
       THEN /\ result' = "panic"
            /\ pc' = "panicked"
            /\ plan' = <<>>
       ELSE /\ result' = "none"
            /\ pc' = "iterating"
            /\ plan' = IterateIndex(it.iop, index, Widen(Eval(it.e).v))

\* tb.GetDocument(key).
GetDocument(key) == IF key \in table THEN "nil" ELSE ErrDocumentNotFound

\* fn(r) for the next document.
Fn == IF consumer.mode = "all" \/ Len(yielded) + 1 < consumer.at THEN "nil"
      ELSE IF consumer.mode = "stop" THEN errStop ELSE ErrConsumer

\* The traversal visits its next pair and calls the callback; an error
\* ends the traversal, the stop signal ends it as a success.
Visited(key, ret) ==
    /\ visits' = Append(visits, key)
    /\ fetched' = IF GetDocument(key) = "nil" THEN Append(fetched, key) ELSE fetched
    /\ yielded' = IF GetDocument(key) = "nil" THEN Append(yielded, key) ELSE yielded
    /\ IF ret = "nil" THEN /\ plan' = Tail(plan)
                           /\ UNCHANGED <<pc, result>>
       ELSE /\ plan' = <<>>
            /\ pc' = "returned"
            /\ result' = IF ret = errStop THEN "nil" ELSE ret

Visit ==
    /\ pc = "iterating"
    /\ plan # <<>>
    /\ Visited(plan[1].key, Callback(GetDocument(plan[1].key), Fn))
    /\ UNCHANGED <<node, tx, index, table, consumer, it, evals, iterCalls>>

\* The traversal is exhausted: Iterate returns nil.
Exhausted ==
    /\ pc = "iterating"
    /\ plan = <<>>
    /\ pc' = "returned"
    /\ result' = "nil"
    /\ UNCHANGED <<node, tx, index, table, consumer, it, plan, visits, fetched,
                   yielded, evals, iterCalls>>

(***************************************************************************)
(* The specifications: Spec is the index input node, CodecSpec the codec;  *)
(* each leaves the other part at rest.                                     *)
(***************************************************************************)
CodecIdle ==
    /\ vals = <<>>
    /\ wire = <<>>
    /\ segs = <<>>
    /\ rpos = 0
    /\ decs = <<>>
    /\ walks = <<>>
    /\ phase = "write"

IterIdle ==
    /\ node = newIndexInputNode("eq", NilExpr, ZeroToken)
    /\ tx = [hasTable |-> FALSE, hasIndex |-> FALSE]
    /\ index = <<>>
    /\ table = {}
    /\ consumer = [mode |-> "all", at |-> 1]
    /\ it = NoIterator
    /\ pc = "idle"
    /\ plan = <<>>
    /\ visits = <<>>
    /\ fetched = <<>>
    /\ yielded = <<>>
    /\ evals = 0
    /\ iterCalls = 0
    /\ result = "none"

Next ==
    \/ ToStream /\ UNCHANGED cvars
    \/ IterateFull /\ UNCHANGED cvars
    \/ IterateFiltered /\ UNCHANGED cvars
    \/ Visit /\ UNCHANGED cvars
    \/ Exhausted /\ UNCHANGED cvars

Init == IterInit /\ CodecIdle

Spec == Init /\ [][Next]_vars

CodecNext ==
    \/ EncodeValueStep /\ UNCHANGED ivars
    \/ WriteForeign /\ UNCHANGED ivars
    \/ DecodeValueStep /\ UNCHANGED ivars
    \/ DecodeDocumentStep /\ UNCHANGED ivars
    \/ DecodeArrayStep /\ UNCHANGED ivars
    \/ IterateStep /\ UNCHANGED ivars

CodecStart == CodecInit /\ IterIdle

CodecSpec == CodecStart /\ [][CodecNext]_vars

(***************************************************************************)
(* Claims about the index input node (specification Spec).                 *)
(***************************************************************************)
Range(q) == {q[i] : i \in 1..Len(q)}

IterateEnded == iterCalls >= 1 /\ pc \in {"returned", "panicked"}

\* C2. Numeric widening for filtered index scans: a node with the "greater
\* than" operator and a filter that evaluates to Integer 2, over the keys
\* 1, 2, 3, 4 stored as Double, yields exactly the documents 3 and 4.
C2_GreaterThanYieldsThreeAndFour ==
    ( /\ node.iop = "gt"
      /\ node.e = "int2"
      /\ index = <<Entry(1), Entry(2), Entry(3), Entry(4)>>
      /\ table = Keys(index)
      /\ consumer.mode = "all"
      /\ IterateEnded )
    => /\ pc = "returned"
       /\ result = "nil"
       /\ yielded = <<3, 4>>

\* C3. Order fidelity: a node with no filter and direction DESC yields the
\* documents in descending key order, any other direction in ascending
\* order; the yield order is the order of the traversal's visits.
C3_OrderFollowsDirection ==
    ( /\ node.e = NilExpr
      /\ table = Keys(index)
      /\ consumer.mode = "all"
      /\ IterateEnded
      /\ result = "nil" )
    => /\ yielded = visits
       /\ yielded = [i \in 1..Len(index) |->
                        IF node.orderByDirection = "DESC"
                        THEN index[Len(index) + 1 - i].key ELSE index[i].key]

\* C4. Early stop is not an error: when fn asks to stop at the first
\* document (or at the at-th), Iterate returns nil, exactly that many
\* documents were fetched and no further index entry was visited.
C4_EarlyStopReturnsNil ==
    ( /\ IterateEnded
      /\ consumer.mode = "stop"
      /\ Len(yielded) >= consumer.at )
    => /\ result = "nil"
       /\ Len(fetched) = consumer.at
       /\ Len(visits) = consumer.at
       /\ plan = <<>>

C4_Witness ==
    /\ pc = "returned"
    /\ consumer = [mode |-> "stop", at |-> 1]
    /\ Len(index) >= 2
    /\ yielded = <<index[1].key>>
    /\ fetched = yielded
    /\ result = "nil"

RECURSIVE ValueEq(_, _)
SameFields(a, b) ==
    /\ a.st = "ok" /\ b.st = "ok"
    /\ Len(a.items) = Len(b.items)
    /\ \A i \in 1..Len(a.items) :
          a.items[i].name = b.items[i].name /\ ValueEq(a.items[i].val, b.items[i].val)

SameElems(a, b) ==
    /\ a.st = "ok" /\ b.st = "ok"
    /\ Len(a.items) = Len(b.items)
    /\ \A i \in 1..Len(a.items) : ValueEq(a.items[i], b.items[i])

ValueEq(v, w) ==
    /\ v.type = w.type
    /\ IF v.type = "document" THEN SameFields(DocumentIterate(v), DocumentIterate(w))
       ELSE IF v.type = "array" THEN SameElems(ArrayIterate(v), ArrayIterate(w))
       ELSE v.b = w.b

\* The k-th Decoder call started where the j-th segment starts.
ReadsSeg(k, j) == k \in 1..Len(decs) /\ j \in 1..Len(segs) /\ decs[k].at = segs[j].at

\* C1. Round trip: DecodeValue on the bytes EncodeValue wrote for v yields
\* a value equal to v with the same type tag.
C1_RoundTrip ==
    \A k \in 1..Len(decs), j \in 1..Len(segs) :
        ( /\ ReadsSeg(k, j)
          /\ segs[j].kind = "value"
          /\ segs[j].st = "ok"
          /\ decs[k].api = "value" )
        => /\ decs[k].st = "ok"
           /\ decs[k].n = Len(segs[j].out)
           /\ decs[k].v.type = vals[segs[j].idx].type
           /\ ValueEq(vals[segs[j].idx], decs[k].v)

\* C1's second sentence alone: an encoded Integer never decodes as a
\* Duration and an encoded Duration never decodes as an Integer.
C1_IntegerAndDurationApart ==
    \A k \in 1..Len(decs), j \in 1..Len(segs) :
        ( /\ ReadsSeg(k, j)
          /\ segs[j].kind = "value"
          /\ vals[segs[j].idx].type \in {"integer", "duration"}
          /\ decs[k].st = "ok" )
        => decs[k].v = vals[segs[j].idx]

\* The raw entries of a container's bytes after its length prefix: count
\* values, delimited one after the other.  <<>> followed by the rest when
\* one cannot be delimited.
RECURSIVE Entries(_, _)
Entries(s, count) ==
    IF count = 0 THEN <<s>>
    ELSE IF Skip(s).st # "ok" THEN <<>>
    ELSE <<Take(s, Skip(s).n)>> \o Entries(Drop(s, Skip(s).n), count - 1)

\* What the source of the j-th segment yields, as the bytes of each entry.
SourceEntries(v) ==
    IF v.type = "document"
    THEN LET f == DocumentIterate(v).items
         IN  [i \in 1..(2 * Len(f)) |->
                 IF i % 2 = 1 THEN EncodeString(f[(i + 1) \div 2].name)
                 ELSE EncodeValue(f[i \div 2].val).out]
    ELSE LET e == ArrayIterate(v).items
         IN  [i \in 1..Len(e) |-> EncodeValue(e[i]).out]

\* C6. Count matches what is written: when EncodeDocument or EncodeArray
\* returns without error, the length prefix equals the number of entries
\* written after it, and the entries are those of the source in its
\* iteration order, with nothing after them.
C6_CountMatchesWritten ==
    \A j \in 1..Len(segs) :
        (segs[j].kind = "value" /\ segs[j].st = "ok" /\ segs[j].hdr >= 0)
        => LET v == vals[segs[j].idx]
               out == segs[j].out
               per == IF v.type = "document" THEN 2 ELSE 1
           IN  /\ segs[j].hdr = segs[j].n
               /\ ReadLen(out).len = segs[j].hdr
               /\ Entries(Drop(out, ReadLen(out).n), per * segs[j].n)
                     = SourceEntries(v) \o <<(<<>>)>>

C6_Witness ==
    \E j \in 1..Len(segs) :
        /\ segs[j].kind = "value"
        /\ segs[j].st = "ok"
        /\ vals[segs[j].idx].type = "document"
        /\ vals[segs[j].idx].rep = "encoded"
        /\ segs[j].hdr = 2
        /\ segs[j].n = 2

\* A foreign document with a malformed nested array, read from its start.
ReadsBadDoc(k, j) ==
    /\ ReadsSeg(k, j)
    /\ segs[j].kind = "foreign"
    /\ segs[j].blk.kind = "doc"
    /\ decs[k].api \in {"value", "document"}

Delimited(bytes) == Skip(bytes).st = "ok" /\ Skip(bytes).n = Len(bytes)

C8_IntegerMarkersDecode ==
    \A k \in 1..Len(decs), j \in 1..Len(segs) :
        ( /\ ReadsSeg(k, j)
          /\ segs[j].kind = "foreign"
          /\ segs[j].blk.kind = "int"
          /\ decs[k].api = "value" )
        => /\ decs[k].st = "ok"
           /\ decs[k].v = NewIntegerValue(segs[j].blk.want)
           /\ decs[k].n = Len(segs[j].out)

\* C10. The decoder stays aligned: a successful DecodeValue consumes
\* exactly the bytes of the value it started at; for an extension block
\* tagged 0x1 the payload consumed is the declared length, and a block
\* whose declared length is not 8 is not accepted as a Duration.
C10_DecoderStaysAligned ==
    \A k \in 1..Len(decs), j \in 1..Len(segs) :
        ( /\ ReadsSeg(k, j)
          /\ decs[k].api = "value"
          /\ decs[k].st = "ok"
          /\ Delimited(segs[j].out) )
        => /\ decs[k].n = Len(segs[j].out)
           /\ (segs[j].kind = "foreign" /\ segs[j].blk.kind = "ext")
              => /\ decs[k].n - DecodeExtHeader(segs[j].out).n
                      = DecodeExtHeader(segs[j].out).len
                 /\ DecodeExtHeader(segs[j].out).len # 8
                      => decs[k].v.type # "duration"

====
